---- MODULE Spec2Model ----
(***************************************************************************)
(* Color Merger (src/code.ts): scan of solid fill/stroke paints, greedy    *)
(* clustering of the color keys, and batch rewrite of the scanned slots.   *)
(*                                                                         *)
(* Numbers.  A color channel is a JavaScript float in [0,1].  It is        *)
(* modelled as an integer h in 0..510 standing for h/510, so that          *)
(* v*255 = h/2 has a half step and Math.round really rounds.               *)
(* Strings are sequences of one-character strings.                         *)
(* Array indices are 0-based as in the source; a TLA+ sequence s holds     *)
(* JavaScript's s[i] at s[i+1].                                            *)
(***************************************************************************)
EXTENDS Integers, Sequences, FiniteSets, TLC

\* ------------------------------------------------------------------ bounds
NumNodes  == 2      \* nodes of the page in the session specification
MaxPaints == 2      \* total number of paints in the initial document
MaxMsgs   == 2      \* messages the UI sends in one session
MaxEdits  == 1      \* edits the user makes to the document in one session
MaxColors == 3      \* nodes of the page in the clustering specification

\* ----------------------------------------------------------------- helpers
\* An optional value (x ?? d, a missing message field) is <<>> or <<x>>.
None    == <<>>
Some(x) == <<x>>

HexDigit == <<"0","1","2","3","4","5","6","7","8","9","A","B","C","D","E","F">>

\* value of a hexadecimal digit character, -1 when it is not one
DigitVal(c) ==
    IF \E i \in 1..16 : HexDigit[i] = c
    THEN (CHOOSE i \in 1..16 : HexDigit[i] = c) - 1
    ELSE -1

\* Math.round(v * 255) for v = h/510: round half up
Round255(h) == (h + 1) \div 2

\* n.toString(16).padStart(2, "0").toUpperCase() for 0 <= n <= 255
ByteToHex(n) ==
    IF n < 16 THEN <<"0", HexDigit[n + 1]>>
    ELSE <<HexDigit[(n \div 16) + 1], HexDigit[(n % 16) + 1]>>

toHex(r, g, b) == ByteToHex(Round255(r)) \o ByteToHex(Round255(g)) \o ByteToHex(Round255(b))

\* hex.replace("#", ""): removes the first "#" wherever it stands
RECURSIVE StripHash(_)
StripHash(s) ==
    IF s = <<>> THEN <<>>
    ELSE IF Head(s) = "#" THEN Tail(s)
    ELSE <<Head(s)>> \o StripHash(Tail(s))

\* parseInt(s, 16) on strings over hex digits and other characters: the value
\* of the longest prefix of hex digits, NaN (here -1) when that prefix is empty
RECURSIVE ParsePrefix(_, _, _)
ParsePrefix(s, acc, seen) ==
    IF s = <<>> \/ DigitVal(Head(s)) < 0
    THEN (IF seen THEN acc ELSE -1)
    ELSE ParsePrefix(Tail(s), acc * 16 + DigitVal(Head(s)), TRUE)

parseInt16(s) == ParsePrefix(s, 0, FALSE)

\* (n >> k) & 255 ; ToInt32(NaN) = 0
ShiftByte(n, k) == IF n < 0 THEN 0 ELSE (n \div (2 ^ k)) % 256

hexToRgb(hex) ==
    LET n == parseInt16(StripHash(hex))
    IN  [r |-> 2 * ShiftByte(n, 16), g |-> 2 * ShiftByte(n, 8), b |-> 2 * ShiftByte(n, 0)]

\* colorDistance(a, b) <= threshold, without the square root:
\* dr = (a.r - b.r) * 255 = (ha - hb) / 2, so 4 * d^2 is an integer
DistSq4(a, b) ==
    (a.r - b.r) * (a.r - b.r) + (a.g - b.g) * (a.g - b.g) + (a.b - b.b) * (a.b - b.b)

colorDistanceLeq(a, b, threshold) ==
    threshold >= 0 /\ DistSq4(a, b) <= 4 * threshold * threshold

\* ------------------------------------------------------------------- scan
\* A paint is [type, visible, opacity] and, when solid, color.  The value of
\* node.fills / node.strokes is [tag, items]: tag "list" with the paints in
\* items, tag "mixed" for figma.mixed, tag "absent" when the node has no such
\* property.  A node is [exists, fills, strokes]; the document is the
\* sequence of the page's nodes, the node id being the position.
Mixed      == [tag |-> "mixed", items |-> <<>>]
NoProperty == [tag |-> "absent", items |-> <<>>]
List(ps)   == [tag |-> "list", items |-> ps]

\* p.opacity ?? 1 (opacity in percent)
OpacityOr1(p) == IF p.opacity = None THEN 100 ELSE p.opacity[1]

\* the filter of extractPaints
IsVisibleSolid(p) == p.type = "SOLID" /\ p.visible # FALSE

\* extractPaints(paints): filter, then map to {r, g, b, a}.  The position of
\* an element of the result is its position among the paints that passed the
\* filter.
extractPaints(paints) ==
    IF paints.tag = "absent" \/ paints.tag = "mixed" THEN <<>>
    ELSE LET kept == SelectSeq(paints.items, IsVisibleSolid)
         IN  [i \in 1..Len(kept) |->
                [r |-> kept[i].color.r, g |-> kept[i].color.g,
                 b |-> kept[i].color.b, a |-> OpacityOr1(kept[i])]]

\* The colorMap object, as the sequence of its properties in insertion order.
HasKey(colorMap, hex) == \E k \in 1..Len(colorMap) : colorMap[k].hex = hex

\* if (!colorMap[hex]) colorMap[hex] = {color, hex, nodes: []};
\* colorMap[hex].nodes.push(ref)
PushRef(colorMap, c, ref) ==
    LET hex == toHex(c.r, c.g, c.b)
        cm  == IF HasKey(colorMap, hex) THEN colorMap
               ELSE Append(colorMap, [color |-> c, hex |-> hex, nodes |-> <<>>])
    IN  [k \in 1..Len(cm) |->
            IF cm[k].hex = hex
            THEN [cm[k] EXCEPT !.nodes = Append(cm[k].nodes, ref)]
            ELSE cm[k]]

\* paints.forEach((c, i) => ...) from position i (0-based) on
RECURSIVE ForEachPaint(_, _, _, _, _)
ForEachPaint(colorMap, paints, id, source, i) ==
    IF i >= Len(paints) THEN colorMap
    ELSE ForEachPaint(
            PushRef(colorMap, paints[i + 1], [nodeId |-> id, source |-> source, index |-> i]),
            paints, id, source, i + 1)

\* the body of the for loop of scanColors for one node
ScanNode(colorMap, d, id) ==
    LET afterFills ==
            IF d[id].fills.tag # "absent"
            THEN ForEachPaint(colorMap, extractPaints(d[id].fills), id, "fill", 0)
            ELSE colorMap
    IN  IF d[id].strokes.tag # "absent"
        THEN ForEachPaint(afterFills, extractPaints(d[id].strokes), id, "stroke", 0)
        ELSE afterFills

\* figma.currentPage.findAll(): the nodes of the page in traversal order
getAllNodes(d) ==
    LET ids == {n \in DOMAIN d : d[n].exists}
        RECURSIVE Asc(_)
        Asc(S) == IF S = {} THEN <<>>
                  ELSE LET m == CHOOSE x \in S : \A y \in S : x <= y
                       IN  <<m>> \o Asc(S \ {m})
    IN  Asc(ids)

RECURSIVE ScanFrom(_, _, _, _)
ScanFrom(colorMap, d, nodes, k) ==
    IF k > Len(nodes) THEN colorMap
    ELSE ScanFrom(ScanNode(colorMap, d, nodes[k]), d, nodes, k + 1)

scanColors(d) == ScanFrom(<<>>, d, getAllNodes(d), 1)

\* --------------------------------------------------------------- clusters
\* decimal value of a string of decimal digits
RECURSIVE DecVal(_, _)
DecVal(s, acc) == IF s = <<>> THEN acc ELSE DecVal(Tail(s), acc * 10 + DigitVal(Head(s)))

\* A property key is an array index when it is the canonical decimal form of
\* an integer below 2^32 - 1.  A color key has six characters, so it is one
\* exactly when all six are decimal digits and the first is not "0".
IsArrayIndex(key) ==
    /\ Len(key) >= 1 /\ Len(key) <= 9
    /\ \A k \in 1..Len(key) : DigitVal(key[k]) >= 0 /\ DigitVal(key[k]) <= 9
    /\ (Len(key) = 1 \/ key[1] # "0")

\* Object.values(colorMap): OrdinaryOwnPropertyKeys lists the array-index keys
\* in ascending numeric order first, then the other string keys in insertion
\* order.
ObjectValues(colorMap) ==
    LET idx == {k \in 1..Len(colorMap) : IsArrayIndex(colorMap[k].hex)}
        RECURSIVE ByValue(_)
        ByValue(S) ==
            IF S = {} THEN <<>>
            ELSE LET m == CHOOSE x \in S : \A y \in S :
                              DecVal(colorMap[x].hex, 0) <= DecVal(colorMap[y].hex, 0)
                 IN  <<colorMap[m]>> \o ByValue(S \ {m})
        NotIndex(e) == ~IsArrayIndex(e.hex)
    IN  ByValue(idx) \o SelectSeq(colorMap, NotIndex)

\* members.reduce((s, m) => s + m.nodes.length, 0)
RECURSIVE SumCounts(_, _)
SumCounts(members, k) ==
    IF k > Len(members) THEN 0 ELSE Len(members[k].nodes) + SumCounts(members, k + 1)

totalCount(group) == SumCounts(group.members, 1)

\* the inner loop without its test of `assigned`
RECURSIVE InnerLoopIgnoringAssigned(_, _, _, _, _, _)
InnerLoopIgnoringAssigned(entries, i, j, members, assigned, threshold) ==
    IF j > Len(entries) THEN <<members, assigned>>
    ELSE IF colorDistanceLeq(entries[i].color, entries[j].color, threshold)
         THEN InnerLoopIgnoringAssigned(entries, i, j + 1, Append(members, entries[j]),
                                        assigned \cup {entries[j].hex}, threshold)
    ELSE InnerLoopIgnoringAssigned(entries, i, j + 1, members, assigned, threshold)

\* the inner loop of groupSimilarColors, from j on; the result is the pair
\* <<members, assigned>>
RECURSIVE InnerLoop(_, _, _, _, _, _)
InnerLoop(entries, i, j, members, assigned, threshold) ==
    IF j > Len(entries) THEN <<members, assigned>>
    ELSE IF entries[j].hex \in assigned
         THEN InnerLoop(entries, i, j + 1, members, assigned, threshold)
    ELSE IF colorDistanceLeq(entries[i].color, entries[j].color, threshold)
         THEN InnerLoop(entries, i, j + 1, Append(members, entries[j]),
                        assigned \cup {entries[j].hex}, threshold)
    ELSE InnerLoop(entries, i, j + 1, members, assigned, threshold)

\* the outer loop of groupSimilarColors, from i on
RECURSIVE OuterLoop(_, _, _, _, _)
OuterLoop(entries, i, groups, assigned, threshold) ==
    IF i > Len(entries) THEN groups
    ELSE IF entries[i].hex \in assigned
         THEN OuterLoop(entries, i + 1, groups, assigned, threshold)
    ELSE LET r == InnerLoop(entries, i, i + 1, <<entries[i]>>,
                            assigned \cup {entries[i].hex}, threshold)
         IN  OuterLoop(entries, i + 1,
                       Append(groups, [representative |-> entries[i], members |-> r[1]]),
                       r[2], threshold)

\* the comparator of groups.sort: countB - countA
CompareGroups(a, b) == totalCount(b) - totalCount(a)

\* Array.prototype.sort is stable: a group goes after every group that does
\* not compare greater than it
RECURSIVE InsertGroup(_, _)
InsertGroup(sorted, g) ==
    IF sorted = <<>> THEN <<g>>
    ELSE IF CompareGroups(Head(sorted), g) <= 0
         THEN <<Head(sorted)>> \o InsertGroup(Tail(sorted), g)
    ELSE <<g>> \o sorted

RECURSIVE SortGroups(_, _, _)
SortGroups(groups, k, sorted) ==
    IF k > Len(groups) THEN sorted
    ELSE SortGroups(groups, k + 1, InsertGroup(sorted, groups[k]))

groupSimilarColors(colorMap, threshold) ==
    SortGroups(OuterLoop(ObjectValues(colorMap), 1, <<>>, {}, threshold), 1, <<>>)

\* msg.threshold ?? 20
ThresholdOr20(t) == IF t = None THEN 20 ELSE t[1]

\* ------------------------------------------------------------------ state
VARIABLES
    doc,        \* the page: sequence of nodes
    handlers,   \* per message of the session, the state of its onmessage call
    responses,  \* per message, the responses posted to the UI for it
    styles,     \* paint styles created so far
    closed,     \* figma.closePlugin() was called
    delivered,  \* number of messages the host has delivered
    edits,      \* number of edits the user has made
    lastWrite,  \* the assignment to node.fills / node.strokes made by the last step
    finished,   \* the handler call that returned in the last step
    threshold,  \* clustering specification: the threshold field of the scan message
    groups,     \* clustering specification: the result of groupSimilarColors
    built       \* clustering specification: groups has been computed

vars == <<doc, handlers, responses, styles, closed, delivered, edits, lastWrite,
          finished, threshold, groups, built>>

sessionVars == <<handlers, responses, styles, closed, delivered, edits, lastWrite, finished>>

Rgb(r, g, b) == [r |-> r, g |-> g, b |-> b]

SolidPaint(c, visible, opacity) ==
    [type |-> "SOLID", visible |-> visible, opacity |-> opacity, color |-> c]

GradientPaint == [type |-> "GRADIENT_LINEAR", visible |-> TRUE, opacity |-> None]

Node(fills, strokes) == [exists |-> TRUE, fills |-> fills, strokes |-> strokes]

NoHandler ==
    [pc |-> "idle", type |-> "none", refs |-> <<>>, total |-> 0, processed |-> 0,
     changed |-> 0, targetHex |-> <<>>, styleName |-> None, selected |-> {},
     clean |-> TRUE, failure |-> "none"]

InitSession ==
    /\ handlers = [m \in 1..MaxMsgs |-> NoHandler]
    /\ responses = [m \in 1..MaxMsgs |-> <<>>]
    /\ styles = <<>>
    /\ closed = FALSE
    /\ delivered = 0
    /\ edits = 0
    /\ lastWrite = None
    /\ finished = None

\* ------------------------------------------- clustering specification
\* Colors of the clustering inputs, in units of 1/510 per channel:
\* FF0000, a float color that rounds to FF0000, F00000, E10000, 999999,
\* 99999A and 111111.
ClusterColors ==
    { Rgb(510, 0, 0), Rgb(509, 0, 0), Rgb(480, 0, 0), Rgb(450, 0, 0),
      Rgb(306, 306, 306), Rgb(306, 306, 308), Rgb(34, 34, 34) }

ClusterThresholds == { None, Some(0), Some(450) }

\* pages of up to MaxColors nodes with one visible solid fill each
ClusterDocs ==
    UNION { { [n \in 1..k |-> Node(List(<<SolidPaint(f[n], TRUE, None)>>), NoProperty)] :
                f \in [1..k -> ClusterColors] } : k \in 0..MaxColors }

InitCluster ==
    /\ InitSession
    /\ doc \in ClusterDocs
    /\ threshold \in ClusterThresholds
    /\ groups = <<>>
    /\ built = FALSE

\* lines 169-171 of the scan handler: scan, default the threshold, group
BuildClusters ==
    /\ ~built
    /\ groups' = groupSimilarColors(scanColors(doc), ThresholdOr20(threshold))
    /\ built' = TRUE
    /\ UNCHANGED <<doc, threshold, sessionVars>>

NextCluster == BuildClusters

SpecCluster == InitCluster /\ [][NextCluster]_vars

\* position of a hex key in the color map = order of discovery by the scan
Discovery(colorMap, hex) == CHOOSE k \in 1..Len(colorMap) : colorMap[k].hex = hex

\* ------------------------------------------------------- merge application
ListOf(node, source) == IF source = "fill" THEN node.fills ELSE node.strokes

\* msg.groupIndices.map((i) => allGroups[i]).filter(Boolean)
RECURSIVE SelectGroups(_, _, _)
SelectGroups(allGroups, groupIndices, k) ==
    IF k > Len(groupIndices) THEN <<>>
    ELSE LET i == groupIndices[k]
         IN  (IF i >= 0 /\ i < Len(allGroups) THEN <<allGroups[i + 1]>> ELSE <<>>)
             \o SelectGroups(allGroups, groupIndices, k + 1)

\* the references in the order the three nested loops of applyMerge visit them
RECURSIVE MemberRefs(_, _)
MemberRefs(members, k) ==
    IF k > Len(members) THEN <<>> ELSE members[k].nodes \o MemberRefs(members, k + 1)

RECURSIVE CollectRefs(_, _)
CollectRefs(selectedGroups, k) ==
    IF k > Len(selectedGroups) THEN <<>>
    ELSE MemberRefs(selectedGroups[k].members, 1) \o CollectRefs(selectedGroups, k + 1)

\* fills[ref.index] && fills[ref.index].type === "SOLID"
SlotIsSolid(items, index) == index < Len(items) /\ items[index + 1].type = "SOLID"

\* fills = JSON.parse(JSON.stringify(node.fills)); fills[ref.index].color = targetColor
RewriteSlot(items, index, targetColor) ==
    [items EXCEPT ![index + 1] = [@ EXCEPT !.color = targetColor]]

\* The try block of applyMerge for one resolved node (lines 130-156).
\* writeOk = FALSE: the assignment to node.fills / node.strokes throws.
\* Result: the document and whether changed was incremented.
ApplyRef(d, ref, targetColor, writeOk) ==
    LET node  == d[ref.nodeId]
        list  == ListOf(node, ref.source)
        fresh == RewriteSlot(list.items, ref.index, targetColor)
    IN  IF list.tag = "list" /\ SlotIsSolid(list.items, ref.index) /\ writeOk
        THEN [doc |-> [d EXCEPT ![ref.nodeId] =
                        IF ref.source = "fill"
                        THEN [@ EXCEPT !.fills = List(fresh)]
                        ELSE [@ EXCEPT !.strokes = List(fresh)]],
              changed |-> 1]
        ELSE [doc |-> d, changed |-> 0]

\* the payload of scan-result (lines 173-180)
Payload(gs) ==
    [k \in 1..Len(gs) |->
        [representative |-> gs[k].representative.hex,
         members |-> [m \in 1..Len(gs[k].members) |->
                        [hex |-> gs[k].members[m].hex,
                         count |-> Len(gs[k].members[m].nodes)]],
         totalCount |-> totalCount(gs[k])]]

\* the responses posted by the handler
ScanResult(gs)  == [type |-> "scan-result", groups |-> Payload(gs)]
ErrorResponse   == [type |-> "error"]
MergeDone(changed, styleCreated) ==
    [type |-> "merge-done", changed |-> changed, styleCreated |-> styleCreated]

\* a catch block that swallows the failure
PostErrorDropped(posted) == posted

\* figma.ui.postMessage from a catch block (lines 184 and 210)
PostError(posted) == Append(posted, ErrorResponse)

\* figma.ui.postMessage of a result (lines 182 and 208)
PostResult(posted, response) == Append(posted, response)

\* lines 201-205: the style created when msg.styleName is truthy
NewStyle(name, targetHex) ==
    [name |-> name, paints |-> <<[type |-> "SOLID", color |-> hexToRgb(targetHex)]>>]

\* The slots that, in document d, hold a visible solid paint whose hex key is
\* a member of one of the selected groups (0-based positions in the node's own
\* list).
MemberKeys(selectedGroups) ==
    UNION { { selectedGroups[g].members[m].hex : m \in 1..Len(selectedGroups[g].members) } :
            g \in 1..Len(selectedGroups) }

VisibleSolidAt(d, n, source, i) ==
    LET list == ListOf(d[n], source)
    IN  /\ d[n].exists
        /\ list.tag = "list"
        /\ i < Len(list.items)
        /\ IsVisibleSolid(list.items[i + 1])

KeyAt(d, n, source, i) ==
    LET c == ListOf(d[n], source).items[i + 1].color IN toHex(c.r, c.g, c.b)

SelectedSlots(d, selectedGroups) ==
    UNION { { <<ns[1], ns[2], i>> :
                i \in { j \in 0..(Len(ListOf(d[ns[1]], ns[2]).items) - 1) :
                          /\ VisibleSolidAt(d, ns[1], ns[2], j)
                          /\ KeyAt(d, ns[1], ns[2], j) \in MemberKeys(selectedGroups) } } :
            ns \in (1..Len(d)) \X {"fill", "stroke"} }

\* ------------------------------------------------------ session specification
\* Paints of the initial documents: FF0000, FE0101 at half opacity, an
\* invisible solid 0000FF, and a gradient.
SessionPaints ==
    { SolidPaint(Rgb(510, 0, 0), TRUE, None),
      SolidPaint(Rgb(508, 2, 2), TRUE, Some(50)),
      SolidPaint(Rgb(0, 0, 510), FALSE, None),
      GradientPaint }

PaintLists(k) == { List(ps) : ps \in [1..k -> SessionPaints] }

\* The capability variants of nodes (fill- and stroke-bearing, fill-bearing,
\* stroke-bearing) alternate over the node ids; a node with at most `budget`
\* paints:
NodeChoices(n, budget) ==
    IF n % 3 = 1
    THEN UNION { { Node(f, st) : f \in PaintLists(kf), st \in PaintLists(kt - kf) } :
                 <<kf, kt>> \in { p \in (0..budget) \X (0..budget) : p[1] <= p[2] } }
    ELSE IF n % 3 = 2
    THEN UNION { { Node(f, NoProperty) : f \in PaintLists(k) } : k \in 0..budget }
    ELSE UNION { { Node(NoProperty, st) : st \in PaintLists(k) } : k \in 0..budget }

PaintCount(d) ==
    LET RECURSIVE Sum(_)
        Sum(k) == IF k > Len(d) THEN 0
                  ELSE Len(d[k].fills.items) + Len(d[k].strokes.items) + Sum(k + 1)
    IN  Sum(1)

\* the pages of n nodes that hold at most MaxPaints paints in total
RECURSIVE SessionDocs(_)
SessionDocs(n) ==
    IF n = 0 THEN { <<>> }
    ELSE UNION { { Append(d, nd) : nd \in NodeChoices(n, MaxPaints - PaintCount(d)) } :
                 d \in SessionDocs(n - 1) }

\* The messages the UI sends.  A missing field is None.
ScanMsgs ==
    { [type |-> "scan", threshold |-> None],
      [type |-> "scan", threshold |-> Some(0)] }

MergeMsgs ==
    { \* merge group 0 to "#00FF00"
      [type |-> "merge", threshold |-> None, groupIndices |-> Some(<<0>>),
       targetHex |-> <<"#","0","0","F","F","0","0">>, styleName |-> None],
      \* exact-match groups, merge group 1 and a group that does not exist to
      \* "FFF" (too short a key) and register the style "Brand"
      [type |-> "merge", threshold |-> Some(0), groupIndices |-> Some(<<1, 5>>),
       targetHex |-> <<"F","F","F">>, styleName |-> Some("Brand")],
      \* no groupIndices field
      [type |-> "merge", threshold |-> None, groupIndices |-> None,
       targetHex |-> <<"#","0","0","F","F","0","0">>, styleName |-> None] }

Init ==
    /\ InitSession
    /\ doc \in SessionDocs(NumNodes)
    /\ threshold = None
    /\ groups = <<>>
    /\ built = FALSE

clusterVars == <<threshold, groups, built>>

\* the host delivers the next message to figma.ui.onmessage
CanDeliver == ~closed /\ delivered < MaxMsgs

\* a handler call that has returned
Returned(type) == [NoHandler EXCEPT !.pc = "done", !.type = type]

\* what a call was when it returned: its state h, the document d it leaves and
\* the responses it has posted
Outcome(id, h, d, posted) ==
    Some([id |-> id, call |-> [h EXCEPT !.pc = "done"], after |-> d, posted |-> posted])

\* Handler of "scan" (lines 167-186); scanFails: the traversal throws.
Scan(msg, scanFails) ==
    /\ CanDeliver
    /\ LET id == delivered + 1
           gs == groupSimilarColors(scanColors(doc), ThresholdOr20(msg.threshold))
           posted == IF scanFails THEN PostError(responses[id])
                     ELSE PostResult(responses[id], ScanResult(gs))
       IN  /\ delivered' = id
           /\ handlers' = [handlers EXCEPT ![id] = Returned("scan")]
           /\ responses' = [responses EXCEPT ![id] = posted]
           /\ finished' = Outcome(id, [NoHandler EXCEPT !.type = "scan",
                              !.failure = IF scanFails THEN "scan" ELSE "none"],
                              doc, posted)
    /\ lastWrite' = None
    /\ UNCHANGED <<doc, styles, closed, edits, clusterVars>>

\* Lines 200-211, after applyMerge has returned h.changed; styleFails: the
\* creation of the style throws.  hs and d are the handlers and the document
\* at that point.
FinishMerge(hs, d, id, h, styleFails) ==
    LET fails  == h.styleName # None /\ styleFails
        posted == IF fails THEN PostError(responses[id])
                  ELSE PostResult(responses[id], MergeDone(h.changed, h.styleName # None))
    IN  /\ handlers' = [hs EXCEPT ![id] = Returned("merge")]
        /\ responses' = [responses EXCEPT ![id] = posted]
        /\ styles' = IF h.styleName # None /\ ~fails
                     THEN Append(styles, NewStyle(h.styleName[1], h.targetHex))
                     ELSE styles
        /\ finished' = Outcome(id, [h EXCEPT !.failure = IF fails THEN "style" ELSE "none"],
                               d, posted)

\* The catch block of the merge handler (lines 209-211) after a failure of
\* kind `failure` in call h.
FailMerge(hs, d, id, h, failure) ==
    /\ handlers' = [hs EXCEPT ![id] = Returned("merge")]
    /\ responses' = [responses EXCEPT ![id] = PostError(@)]
    /\ styles' = styles
    /\ finished' = Outcome(id, [h EXCEPT !.failure = failure], d, PostError(responses[id]))

\* Handler of "merge" up to its first await (lines 188-198 and 119-127).
Merge(msg, scanFails, styleFails) ==
    /\ CanDeliver
    /\ delivered' = delivered + 1
    /\ LET id == delivered + 1
           allGroups == groupSimilarColors(scanColors(doc), ThresholdOr20(msg.threshold))
           selectedGroups == SelectGroups(allGroups, msg.groupIndices[1], 1)
           refs == CollectRefs(selectedGroups, 1)
           h0 == [NoHandler EXCEPT !.type = "merge", !.targetHex = msg.targetHex,
                                   !.styleName = msg.styleName]
           h  == [h0 EXCEPT !.pc = "await", !.refs = refs, !.total = Len(refs),
                            !.selected = SelectedSlots(doc, selectedGroups)]
       IN  IF scanFails \/ msg.groupIndices = None
           THEN FailMerge(handlers, doc, id, h0, IF scanFails THEN "scan" ELSE "arguments")
           ELSE IF refs = <<>>
           THEN FinishMerge(handlers, doc, id, h, styleFails)
           ELSE /\ handlers' = [handlers EXCEPT ![id] = h]
                /\ finished' = None
                /\ UNCHANGED <<responses, styles>>
    /\ lastWrite' = None
    /\ UNCHANGED <<doc, closed, edits, clusterVars>>

\* The other calls that are suspended lose `clean` when the document is
\* written.
Dirty(hs, except) ==
    [m \in DOMAIN hs |->
        IF m # except /\ hs[m].pc = "await" THEN [hs[m] EXCEPT !.clean = FALSE] ELSE hs[m]]

\* Handler of "merge" resumed after await figma.getNodeByIdAsync (lines
\* 127-158), up to the next await or to the end of the handler.
\* rejected: the promise rejects; writeOk: the assignment to the node succeeds.
Resume(id, rejected, writeOk, styleFails) ==
    /\ ~closed
    /\ handlers[id].pc = "await"
    /\ LET h   == handlers[id]
           ref == Head(h.refs)
           r   == IF doc[ref.nodeId].exists
                  THEN ApplyRef(doc, ref, hexToRgb(h.targetHex), writeOk)
                  ELSE [doc |-> doc, changed |-> 0]
           threw == /\ doc[ref.nodeId].exists /\ ~writeOk
                    /\ ApplyRef(doc, ref, hexToRgb(h.targetHex), TRUE).changed = 1
           h2  == [h EXCEPT !.refs = Tail(h.refs), !.processed = @ + 1,
                            !.changed = @ + r.changed,
                            !.clean = @ /\ ~threw]
           hs  == IF r.changed = 1 THEN Dirty(handlers, id) ELSE handlers
       IN  IF rejected
           THEN /\ doc' = doc
                /\ lastWrite' = None
                /\ FailMerge(handlers, doc, id, h, "resolve")
           ELSE /\ doc' = r.doc
                /\ lastWrite' =
                       IF r.changed = 1
                       THEN Some([id |-> id, nodeId |-> ref.nodeId, source |-> ref.source,
                                  index |-> ref.index, selected |-> h.selected,
                                  targetHex |-> h.targetHex,
                                  before |-> ListOf(doc[ref.nodeId], ref.source).items,
                                  after |-> ListOf(r.doc[ref.nodeId], ref.source).items])
                       ELSE None
                /\ IF h2.refs = <<>>
                   THEN FinishMerge(hs, r.doc, id, h2, styleFails)
                   ELSE /\ handlers' = [hs EXCEPT ![id] = h2]
                        /\ finished' = None
                        /\ UNCHANGED <<responses, styles>>
    /\ UNCHANGED <<closed, delivered, edits, clusterVars>>

\* Handler of "close" (lines 214-216)
Close ==
    /\ CanDeliver
    /\ delivered' = delivered + 1
    /\ handlers' = [handlers EXCEPT ![delivered + 1] = Returned("close")]
    /\ closed' = TRUE
    /\ lastWrite' = None
    /\ finished' = None
    /\ UNCHANGED <<doc, responses, styles, edits, clusterVars>>

\* The user edits the document while the plugin runs.
CanEdit == ~closed /\ edits < MaxEdits

Edited(d) ==
    /\ doc' = d
    /\ edits' = edits + 1
    /\ handlers' = Dirty(handlers, 0)
    /\ lastWrite' = None
    /\ finished' = None
    /\ UNCHANGED <<responses, styles, closed, delivered, clusterVars>>

\* the user deletes a node
RemoveNode(n) ==
    /\ CanEdit
    /\ doc[n].exists
    /\ Edited([doc EXCEPT ![n].exists = FALSE])

\* the user turns the paint of a slot into a gradient
ChangePaint(n, source, i) ==
    /\ CanEdit
    /\ doc[n].exists
    /\ ListOf(doc[n], source).tag = "list"
    /\ i < Len(ListOf(doc[n], source).items)
    /\ ListOf(doc[n], source).items[i + 1] # GradientPaint
    /\ Edited(IF source = "fill"
              THEN [doc EXCEPT ![n].fills.items[i + 1] = GradientPaint]
              ELSE [doc EXCEPT ![n].strokes.items[i + 1] = GradientPaint])

\* the property of the node becomes figma.mixed
MakeMixed(n, source) ==
    /\ CanEdit
    /\ doc[n].exists
    /\ ListOf(doc[n], source).tag = "list"
    /\ Edited(IF source = "fill"
              THEN [doc EXCEPT ![n].fills = Mixed]
              ELSE [doc EXCEPT ![n].strokes = Mixed])

Next ==
    \/ \E msg \in ScanMsgs, scanFails \in BOOLEAN : Scan(msg, scanFails)
    \/ \E msg \in MergeMsgs, scanFails \in BOOLEAN, styleFails \in BOOLEAN :
          Merge(msg, scanFails, styleFails)
    \/ \E id \in 1..MaxMsgs, rejected \in BOOLEAN, writeOk \in BOOLEAN,
          styleFails \in BOOLEAN : Resume(id, rejected, writeOk, styleFails)
    \/ Close
    \/ \E n \in 1..NumNodes : RemoveNode(n)
    \/ \E n \in 1..NumNodes, source \in {"fill", "stroke"}, i \in 0..(MaxPaints - 1) :
          ChangePaint(n, source, i)
    \/ \E n \in 1..NumNodes, source \in {"fill", "stroke"} : MakeMixed(n, source)

Spec == Init /\ [][Next]_vars

\* ------------------------------------------------------------------ claims
\* Exactly six hex digits, after the "#" that hexToRgb strips.
IsColorKey(hex) ==
    LET key == StripHash(hex)
    IN  Len(key) = 6 /\ \A k \in 1..Len(key) : DigitVal(key[k]) >= 0

PaintAt(d, slot) == ListOf(d[slot[1]], slot[2]).items[slot[3] + 1]

\* C1: when a merge to a well-formed target returns merge-done, with no edit
\* of the document and no failed write since its scan, every slot that held a
\* visible solid paint of a selected cluster at the scan holds the target color.
C1_SelectedSlotsHoldTarget ==
    finished # None =>
        LET f == finished[1]
        IN  ( /\ f.call.type = "merge"
              /\ f.posted[1].type = "merge-done"
              /\ f.call.clean
              /\ IsColorKey(f.call.targetHex) )
            => \A slot \in f.call.selected :
                   PaintAt(f.after, slot).color = hexToRgb(f.call.targetHex)

\* C2: every reference produced by the scan of a scan request names, in the
\* node's own list, a visible solid paint with the hex key of the entry that
\* holds the reference.
C2_SlotIndexIsOriginalPosition ==
    (finished # None /\ finished[1].call.type = "scan" /\ finished[1].call.failure = "none")
    => LET d == finished[1].after
           colorMap == scanColors(d)
       IN  \A k \in 1..Len(colorMap) : \A j \in 1..Len(colorMap[k].nodes) :
               LET ref == colorMap[k].nodes[j]
               IN  /\ VisibleSolidAt(d, ref.nodeId, ref.source, ref.index)
                   /\ KeyAt(d, ref.nodeId, ref.source, ref.index) = colorMap[k].hex

\* C3: every write of a merge changes one slot that held a visible solid paint
\* of a selected cluster at the merge's scan, and changes only the color of
\* that slot: the other paints, the other properties of the paint, and the
\* length and order of the list stay.
C3_WritesOnlySelectedColors ==
    lastWrite # None =>
        LET w == lastWrite[1]
        IN  /\ <<w.nodeId, w.source, w.index>> \in w.selected
            /\ Len(w.after) = Len(w.before)
            /\ \A k \in 1..Len(w.before) :
                   w.after[k] = IF k = w.index + 1
                                THEN [w.before[k] EXCEPT !.color = hexToRgb(w.targetHex)]
                                ELSE w.before[k]

\* C4: a merge in which nothing fails but references (node gone, slot changed,
\* resolving or writing the node fails) visits all its references and answers
\* merge-done with its count of changed slots.
C4_ReferenceFailuresAreSkipped ==
    finished # None =>
        LET f == finished[1]
        IN  (f.call.type = "merge" /\ f.call.failure \notin {"scan", "arguments", "style"})
            => /\ f.posted = <<MergeDone(f.call.changed, f.call.styleName # None)>>
               /\ f.call.processed = f.call.total
               /\ f.call.changed <= f.call.processed

C6_NoInterleaving ==
    [][\A m \in 1..MaxMsgs :
          (handlers[m].pc = "idle" /\ handlers'[m].pc # "idle")
              => \A o \in 1..MaxMsgs : handlers[o].pc # "await"]_vars

\* C9: a merge whose targetHex is not six hex digits is answered with an error
\* and writes no slot.
C9_MalformedTargetIsRejected ==
    /\ finished # None =>
          ((finished[1].call.type = "merge" /\ ~IsColorKey(finished[1].call.targetHex))
              => finished[1].posted = <<ErrorResponse>>)
    /\ lastWrite # None => IsColorKey(lastWrite[1].targetHex)

\* ---- claims about the Cluster Builder, under SpecCluster
\* the <<group, member>> positions of the clustering
Positions ==
    { gm \in (1..Len(groups)) \X (1..Len(scanColors(doc))) :
        gm[2] <= Len(groups[gm[1]].members) }

\* C7: the clusters partition the entries of the color map: every entry is a
\* member at exactly one position, and every member is an entry.
C7_ClustersPartitionEntries ==
    built =>
        LET colorMap == scanColors(doc)
        IN  /\ \A k \in 1..Len(colorMap) :
                 Cardinality({ gm \in Positions :
                                 groups[gm[1]].members[gm[2]] = colorMap[k] }) = 1
            /\ \A gm \in Positions :
                 \E k \in 1..Len(colorMap) : groups[gm[1]].members[gm[2]] = colorMap[k]

\* C7 witness: a clustering of three entries into two clusters.
C7_TwoClustersThreeEntries ==
    /\ built
    /\ Len(scanColors(doc)) = 3
    /\ Len(groups) = 2

\* C8: the clusters are in order of non-increasing totalCount, and clusters of
\* equal totalCount are in the order in which the scan discovered their
\* representatives.
C8_SortedByCountThenDiscovery ==
    built =>
        \A k \in 1..(Len(groups) - 1) :
            \/ totalCount(groups[k]) > totalCount(groups[k + 1])
            \/ /\ totalCount(groups[k]) = totalCount(groups[k + 1])
               /\ Discovery(scanColors(doc), groups[k].representative.hex)
                    < Discovery(scanColors(doc), groups[k + 1].representative.hex)

\* C10: every entry is a member of the cluster of the earliest-discovered
\* representative that was discovered before it and is within the threshold
\* of it, and is the representative of its own cluster when there is none.
C10_EarliestRepresentative ==
    built =>
        LET colorMap == scanColors(doc)
            t == ThresholdOr20(threshold)
            Near(k) == { g \in 1..Len(groups) :
                           /\ Discovery(colorMap, groups[g].representative.hex) < k
                           /\ colorDistanceLeq(groups[g].representative.color,
                                               colorMap[k].color, t) }
            Earliest(S) == CHOOSE g \in S : \A o \in S :
                               Discovery(colorMap, groups[g].representative.hex)
                                 <= Discovery(colorMap, groups[o].representative.hex)
        IN  \A k \in 1..Len(colorMap) :
                IF Near(k) = {}
                THEN \E g \in 1..Len(groups) : groups[g].representative = colorMap[k]
                ELSE \E m \in 1..Len(groups[Earliest(Near(k))].members) :
                         groups[Earliest(Near(k))].members[m] = colorMap[k]

====
